---- MODULE Spec2Model ----
(***************************************************************************)
(* MeetingScheduler: the in-memory stores of meeting-scheduler-code.go,    *)
(* its gin handlers and the recommendation computation.                    *)
(*                                                                         *)
(* Abstractions.  Identifiers (uuid.New) are natural numbers handed out    *)
(* by a counter: identifiers are only ever compared for equality, and the  *)
(* order in which Go iterates a map is modelled by an explicit choice of   *)
(* a permutation, never by the identifier.  Instants (time.Time) are       *)
(* integers counting ticks, TicksPerMinute ticks to the minute, so that    *)
(* a slot may last a fraction of a minute.  CreatedAt/UpdatedAt are left   *)
(* out: no handler reads them.  A float64 percentage a/n*100 is the exact  *)
(* rational a*100/n.  A nil slice and an empty slice are both the empty    *)
(* sequence.                                                               *)
(***************************************************************************)
EXTENDS Integers, Sequences, FiniteSets

\* ------------------------------------------------------------------ bounds

\* Number of store-changing requests served in one behaviour.
MaxRequests == 4

\* Resolution of the clock: ticks per minute.
TicksPerMinute == 2

\* time.Time{}: the zero instant, which `binding:"required"` rejects.
ZeroTime == -1

\* --------------------------------------------------------- request inputs

UserIDs == {"user1", "user2", "user3"}

\* CreateEventRequest fields; "" and 0 are the zero values that
\* `binding:"required"` rejects.
Titles == {"", "Team Meeting"}
Descriptions == {"Weekly team sync"}
OrganizerIDs == {"", "user1"}
RequiredDurations == {-1, 0, 1}

\* The bodies sent: those that bind, and those with one required field
\* missing.
CreateEventRequests ==
    { req \in [Title : Titles, Description : Descriptions,
               OrganizerID : OrganizerIDs, RequiredDuration : RequiredDurations] :
        (IF req.Title = "" THEN 1 ELSE 0)
          + (IF req.OrganizerID = "" THEN 1 ELSE 0)
          + (IF req.RequiredDuration = 0 THEN 1 ELSE 0) <= 1 }

\* CreateTimeSlotRequest bodies: one minute from 0, one minute from 1, less
\* than a minute, zero length, end before start, and a missing endTime.
CreateTimeSlotRequests ==
    { [StartTime |-> 0, EndTime |-> TicksPerMinute],
      [StartTime |-> 1, EndTime |-> TicksPerMinute + 1],
      [StartTime |-> 0, EndTime |-> TicksPerMinute - 1],
      [StartTime |-> 1, EndTime |-> 1],
      [StartTime |-> 1, EndTime |-> 0],
      [StartTime |-> 0, EndTime |-> ZeroTime] }

\* ------------------------------------------------------------------- state

VARIABLES
    events,            \* map[string]Event
    timeSlots,         \* map[string]TimeSlot
    userAvailability,  \* map[string]UserAvailability
    nextID,            \* the identifier uuid.New hands out next
    served,            \* store-changing requests served so far
    response,          \* the reply most recently written with c.JSON
    call,              \* the getRecommendations call in flight, if any
    crashed            \* the runtime stopped the process (fatal error)

vars == <<events, timeSlots, userAvailability, nextID, served, response, call, crashed>>

stores == <<events, timeSlots, userAvailability>>

\* Identifiers a client may send in a path or a body.  nextID, never handed
\* out, stands for every identifier that is no key of the map the handler
\* looks it up in.
EventIDParams == DOMAIN events \cup {nextID}

TimeSlotIDParams == DOMAIN timeSlots \cup {nextID}

\* The event identifiers sent to getRecommendations: those above and those
\* of deleted events that stored slots or availability records still name.
RecommendationParams ==
    EventIDParams
    \cup { timeSlots[id].EventID : id \in DOMAIN timeSlots }
    \cup { userAvailability[id].EventID : id \in DOMAIN userAvailability }

\* The (event, user, slot) paths sent to updateUserAvailability and
\* deleteUserAvailability: those of the stored records, and one that no
\* stored record has.
AvailabilityPathParams ==
    { <<userAvailability[id].EventID, userAvailability[id].UserID,
        userAvailability[id].TimeSlotID>> : id \in DOMAIN userAvailability }
    \cup { <<nextID, u, nextID>> : u \in UserIDs }

NoCall == [pc |-> "idle"]

\* A reply of an endpoint other than /recommendations: its status code.
Reply(status) ==
    [endpoint |-> "crud", status |-> status, eventID |-> 0, recommendations |-> <<>>]

\* A reply of /recommendations.
RecommendationsReply(status, eventID, recs) ==
    [endpoint |-> "recommendations", status |-> status, eventID |-> eventID,
     recommendations |-> recs]

Init ==
    /\ events = <<>>
    /\ timeSlots = <<>>
    /\ userAvailability = <<>>
    /\ nextID = 1
    /\ served = 0
    /\ response = Reply(0)
    /\ call = NoCall
    /\ crashed = FALSE

\* m with key k set to v (Go: m[k] = v).
Put(m, k, v) == [x \in DOMAIN m \cup {k} |-> IF x = k THEN v ELSE m[x]]

\* m without key k (Go: delete(m, k)).
Delete(m, k) == [x \in DOMAIN m \ {k} |-> m[x]]

\* UserAvailabilityRequest bodies naming one of the slots `ids`: those that
\* bind, one without timeslotId (0) and one whose status fails `oneof`.
AvailabilityBodies(ids) ==
    [TimeSlotID : ids, Status : {"available", "unavailable"}]
    \cup { [TimeSlotID |-> 0, Status |-> "available"] }
    \cup { [TimeSlotID |-> id, Status |-> "maybe"] : id \in ids }

\* The bodies sent to createUserAvailability.
UserAvailabilityRequests == AvailabilityBodies(TimeSlotIDParams)

\* The bodies sent to updateUserAvailability, which reads the slot from the
\* path and only binds the body's timeslotId.
UpdateAvailabilityRequests(timeslotID) == AvailabilityBodies({timeslotID})

\* ------------------------------------------------------------- bindings

\* c.ShouldBindJSON(&req) for a CreateEventRequest: every field tagged
\* `binding:"required"` differs from its zero value.
BindsEvent(req) ==
    /\ req.Title # ""
    /\ req.OrganizerID # ""
    /\ req.RequiredDuration # 0

\* c.ShouldBindJSON(&req) for a CreateTimeSlotRequest.
BindsTimeSlot(req) ==
    /\ req.StartTime # ZeroTime
    /\ req.EndTime # ZeroTime

\* c.ShouldBindJSON(&req) for a UserAvailabilityRequest.
BindsAvailability(req) ==
    /\ req.TimeSlotID # 0
    /\ req.Status \in {"available", "unavailable"}

\* t.Before(u)
Before(t, u) == t < u

\* The process is alive: the runtime has not stopped it.
Running == ~crashed

\* What a handler that only replies leaves alone.
ReplyOnly(status) ==
    /\ response' = Reply(status)
    /\ UNCHANGED <<events, timeSlots, userAvailability, nextID, served, call, crashed>>

\* ------------------------------------------------------- event handlers

\* The handler numbering events by the size of the map instead of drawing
\* a fresh identifier.
createEvent_CountsEvents(req) ==
    Running /\
    IF ~BindsEvent(req)
    THEN ReplyOnly(400)
    ELSE /\ served < MaxRequests
         /\ events' = Put(events, Cardinality(DOMAIN events) + 1,
                          [ID |-> Cardinality(DOMAIN events) + 1,
                           Title |-> req.Title,
                           Description |-> req.Description,
                           OrganizerID |-> req.OrganizerID,
                           RequiredDuration |-> req.RequiredDuration,
                           Status |-> "active"])
         /\ nextID' = nextID + 1
         /\ served' = served + 1
         /\ response' = Reply(201)
         /\ UNCHANGED <<timeSlots, userAvailability, call, crashed>>

createEvent(req) ==
    Running /\
    IF ~BindsEvent(req)
    THEN ReplyOnly(400)
    ELSE /\ served < MaxRequests
         /\ events' = Put(events, nextID,
                          [ID |-> nextID,
                           Title |-> req.Title,
                           Description |-> req.Description,
                           OrganizerID |-> req.OrganizerID,
                           RequiredDuration |-> req.RequiredDuration,
                           Status |-> "active"])
         /\ nextID' = nextID + 1
         /\ served' = served + 1
         /\ response' = Reply(201)
         /\ UNCHANGED <<timeSlots, userAvailability, call, crashed>>

updateEvent(eventID) ==
    Running /\
    IF eventID \notin DOMAIN events
    THEN ReplyOnly(404)
    ELSE \E req \in CreateEventRequests :
    IF ~BindsEvent(req)
    THEN ReplyOnly(400)
    ELSE /\ served < MaxRequests
         /\ events' = Put(events, eventID,
                          [events[eventID] EXCEPT
                             !.Title = req.Title,
                             !.Description = req.Description,
                             !.OrganizerID = req.OrganizerID,
                             !.RequiredDuration = req.RequiredDuration])
         /\ served' = served + 1
         /\ response' = Reply(200)
         /\ UNCHANGED <<timeSlots, userAvailability, nextID, call, crashed>>

deleteEvent(eventID) ==
    Running /\
    IF eventID \notin DOMAIN events
    THEN ReplyOnly(404)
    ELSE /\ served < MaxRequests
         /\ events' = Delete(events, eventID)
         /\ served' = served + 1
         /\ response' = Reply(204)
         /\ UNCHANGED <<timeSlots, userAvailability, nextID, call, crashed>>

\* ---------------------------------------------------- time slot handlers

createTimeSlot(eventID) ==
    Running /\
    IF eventID \notin DOMAIN events
    THEN ReplyOnly(404)
    ELSE \E req \in CreateTimeSlotRequests :
    IF ~BindsTimeSlot(req)
    THEN ReplyOnly(400)
    ELSE IF Before(req.EndTime, req.StartTime)
    THEN ReplyOnly(400)
    ELSE /\ served < MaxRequests
         /\ timeSlots' = Put(timeSlots, nextID,
                             [ID |-> nextID,
                              EventID |-> eventID,
                              StartTime |-> req.StartTime,
                              EndTime |-> req.EndTime])
         /\ nextID' = nextID + 1
         /\ served' = served + 1
         /\ response' = Reply(201)
         /\ UNCHANGED <<events, userAvailability, call, crashed>>

updateTimeSlot(timeslotID) ==
    Running /\
    IF timeslotID \notin DOMAIN timeSlots
    THEN ReplyOnly(404)
    ELSE \E req \in CreateTimeSlotRequests :
    IF ~BindsTimeSlot(req)
    THEN ReplyOnly(400)
    ELSE IF Before(req.EndTime, req.StartTime)
    THEN ReplyOnly(400)
    ELSE /\ served < MaxRequests
         /\ timeSlots' = Put(timeSlots, timeslotID,
                             [timeSlots[timeslotID] EXCEPT
                                !.StartTime = req.StartTime,
                                !.EndTime = req.EndTime])
         /\ served' = served + 1
         /\ response' = Reply(200)
         /\ UNCHANGED <<events, userAvailability, nextID, call, crashed>>

deleteTimeSlot(timeslotID) ==
    Running /\
    IF timeslotID \notin DOMAIN timeSlots
    THEN ReplyOnly(404)
    ELSE /\ served < MaxRequests
         /\ timeSlots' = Delete(timeSlots, timeslotID)
         /\ served' = served + 1
         /\ response' = Reply(204)
         /\ UNCHANGED <<events, userAvailability, nextID, call, crashed>>

\* ------------------------------------------------- availability handlers

createUserAvailability(eventID, userID) ==
    Running /\
    IF eventID \notin DOMAIN events
    THEN ReplyOnly(404)
    ELSE \E req \in UserAvailabilityRequests :
    IF ~BindsAvailability(req)
    THEN ReplyOnly(400)
    ELSE IF req.TimeSlotID \notin DOMAIN timeSlots
    THEN ReplyOnly(404)
    ELSE /\ served < MaxRequests
         /\ userAvailability' = Put(userAvailability, nextID,
                                    [ID |-> nextID,
                                     UserID |-> userID,
                                     EventID |-> eventID,
                                     TimeSlotID |-> req.TimeSlotID,
                                     Status |-> req.Status])
         /\ nextID' = nextID + 1
         /\ served' = served + 1
         /\ response' = Reply(201)
         /\ UNCHANGED <<events, timeSlots, call, crashed>>

\* The records the loops of updateUserAvailability and
\* deleteUserAvailability stop at: the first one the map iteration yields
\* that matches, which may be any of the matching ones.
MatchingAvailability(eventID, userID, timeslotID) ==
    { id \in DOMAIN userAvailability :
        /\ userAvailability[id].EventID = eventID
        /\ userAvailability[id].UserID = userID
        /\ userAvailability[id].TimeSlotID = timeslotID }

updateUserAvailability(eventID, userID, timeslotID) ==
    Running /\
    IF MatchingAvailability(eventID, userID, timeslotID) = {}
    THEN ReplyOnly(404)
    ELSE \E req \in UpdateAvailabilityRequests(timeslotID) :
    IF ~BindsAvailability(req)
    THEN ReplyOnly(400)
    ELSE \E targetID \in MatchingAvailability(eventID, userID, timeslotID) :
         /\ served < MaxRequests
         /\ userAvailability' = Put(userAvailability, targetID,
                                    [userAvailability[targetID] EXCEPT
                                       !.Status = req.Status])
         /\ served' = served + 1
         /\ response' = Reply(200)
         /\ UNCHANGED <<events, timeSlots, nextID, call, crashed>>

deleteUserAvailability(eventID, userID, timeslotID) ==
    Running /\
    IF MatchingAvailability(eventID, userID, timeslotID) = {}
    THEN ReplyOnly(404)
    ELSE \E targetID \in MatchingAvailability(eventID, userID, timeslotID) :
         /\ served < MaxRequests
         /\ userAvailability' = Delete(userAvailability, targetID)
         /\ served' = served + 1
         /\ response' = Reply(204)
         /\ UNCHANGED <<events, timeSlots, nextID, call, crashed>>

\* ------------------------------------------------------ recommendations

\* The orders in which a `range` over a map (or a set of keys) S may yield
\* its elements: Go leaves the order unspecified, and it differs from one
\* loop to the next.
IterationOrders(S) ==
    { o \in [1..Cardinality(S) -> S] : \A i, j \in DOMAIN o : i # j => o[i] # o[j] }

\* The keys of timeSlots whose slot belongs to the event.
EventSlotIDs(eventID) ==
    { id \in DOMAIN timeSlots : timeSlots[id].EventID = eventID }

\* eventSlots, appended in the order the map iteration yields the slots.
EventSlots(order) == [i \in DOMAIN order |-> timeSlots[order[i]]]

\* uniqueUsers: the users of the event's availability records.
UniqueUsers(eventID) ==
    { userAvailability[id].UserID :
        id \in { x \in DOMAIN userAvailability : userAvailability[x].EventID = eventID } }

\* slot.EndTime.Sub(slot.StartTime), in ticks.
Sub(t, u) == t - u

\* The comparison with the minutes rounded to the nearest whole number.
ShorterThanMinutes_Rounded(d, minutes) ==
    (2 * d + TicksPerMinute) \div (2 * TicksPerMinute) < minutes

\* slotDuration < float64(event.RequiredDuration), where slotDuration is
\* the real number of minutes d.Minutes() of a duration of d ticks.
ShorterThanMinutes(d, minutes) == d < minutes * TicksPerMinute

\* The slot is not skipped by the duration check.
LongEnough(slot, event) ==
    ~ShorterThanMinutes(Sub(slot.EndTime, slot.StartTime), event.RequiredDuration)

\* The search without the test of the status.
IsAvailable_AnyStatus(eventID, userID, slotID) ==
    \E id \in DOMAIN userAvailability :
        /\ userAvailability[id].EventID = eventID
        /\ userAvailability[id].UserID = userID
        /\ userAvailability[id].TimeSlotID = slotID

\* isAvailable: some record of the event, the user and the slot has status
\* "available".
IsAvailable(eventID, userID, slotID) ==
    \E id \in DOMAIN userAvailability :
        /\ userAvailability[id].EventID = eventID
        /\ userAvailability[id].UserID = userID
        /\ userAvailability[id].TimeSlotID = slotID
        /\ userAvailability[id].Status = "available"

\* len(availableUsers) / len(uniqueUsers) * 100 on ints, without float64.
Percentage_IntegerDivision(available, known) ==
    [num |-> (available \div known) * 100, den |-> 1]

\* float64(available) / float64(known) * 100, as the rational num/den.
Percentage(available, known) == [num |-> available * 100, den |-> known]

\* p < q on percentages.
PercentageLess(p, q) == p.num * q.den < q.num * p.den

\* p = q on percentages.
PercentageEqual(p, q) == p.num * q.den = q.num * p.den

\* One Recommendation: the users in the order `users` in which the range
\* over uniqueUsers yields them, appended to one list or the other.
Recommend(eventID, slot, users) ==
    LET availableUsers ==
            SelectSeq(users, LAMBDA u : IsAvailable(eventID, u, slot.ID))
        unavailableUsers ==
            SelectSeq(users, LAMBDA u : ~IsAvailable(eventID, u, slot.ID))
    IN  [TimeSlot |-> slot,
         AvailableUsers |-> availableUsers,
         UnavailableUsers |-> unavailableUsers,
         AvailabilityPercentage |-> Percentage(Len(availableUsers), Len(users))]

\* The loop over eventSlots: the slots that are long enough, each scored,
\* in the order of eventSlots.  userOrder[id] is the order in which the
\* range over uniqueUsers runs for slot id.
Recommendations(event, eventSlots, userOrder) ==
    LET kept == SelectSeq(eventSlots, LAMBDA slot : LongEnough(slot, event))
    IN  [i \in DOMAIN kept |-> Recommend(event.ID, kept[i], userOrder[kept[i].ID])]

\* recommendations[i], recommendations[j] = recommendations[j], recommendations[i]
Swap(r, i, j) == [r EXCEPT ![i] = r[j], ![j] = r[i]]

RECURSIVE SortInner_Ascending(_, _, _)
\* The inner loop with the comparison turned around.
SortInner_Ascending(r, i, j) ==
    IF j > Len(r)
    THEN r
    ELSE SortInner_Ascending(
           IF PercentageLess(r[j].AvailabilityPercentage, r[i].AvailabilityPercentage)
           THEN Swap(r, i, j)
           ELSE r,
           i, j + 1)

RECURSIVE SortInner(_, _, _)
\* for j := i + 1; j < len(recommendations); j++ (indices from 1)
SortInner(r, i, j) ==
    IF j > Len(r)
    THEN r
    ELSE SortInner(
           IF PercentageLess(r[i].AvailabilityPercentage, r[j].AvailabilityPercentage)
           THEN Swap(r, i, j)
           ELSE r,
           i, j + 1)

RECURSIVE SortOuter(_, _)
\* for i := 0; i < len(recommendations); i++ (indices from 1)
SortOuter(r, i) ==
    IF i > Len(r) THEN r ELSE SortOuter(SortInner(r, i, i + 1), i + 1)

\* The "simplified bubble sort" of the handler.
SortRecommendations(r) == SortOuter(r, 1)

\* A missing event answered as an event without slots.
NotFoundReply_Empty(eventID) == RecommendationsReply(200, eventID, <<>>)

\* An event without slots or respondents answered as a missing event.
EmptyReply_NotFound(eventID) == RecommendationsReply(404, eventID, <<>>)

\* c.JSON(http.StatusNotFound, gin.H{"error": "Event not found"})
NotFoundReply(eventID) == RecommendationsReply(404, eventID, <<>>)

\* c.JSON(http.StatusOK, RecommendationsResponse{Recommendations: []Recommendation{}})
EmptyReply(eventID) == RecommendationsReply(200, eventID, <<>>)

\* The handler filtering the store in place: the slots that fail the
\* duration check are deleted from timeSlots instead of being skipped.
getRecommendations_DropsShortSlots(eventID) ==
    /\ Running
    /\ call = NoCall
    /\ UNCHANGED <<events, userAvailability, nextID, served, call, crashed>>
    /\ IF eventID \notin DOMAIN events
       THEN response' = NotFoundReply(eventID) /\ UNCHANGED timeSlots
       ELSE IF EventSlotIDs(eventID) = {}
       THEN response' = EmptyReply(eventID) /\ UNCHANGED timeSlots
       ELSE IF UniqueUsers(eventID) = {}
       THEN response' = EmptyReply(eventID) /\ UNCHANGED timeSlots
       ELSE /\ timeSlots' =
                 [id \in { x \in DOMAIN timeSlots :
                             timeSlots[x].EventID = eventID
                               => LongEnough(timeSlots[x], events[eventID]) }
                    |-> timeSlots[id]]
            /\ \E slotOrder \in IterationOrders(EventSlotIDs(eventID)) :
               \E userOrder \in [EventSlotIDs(eventID) -> IterationOrders(UniqueUsers(eventID))] :
                 response' = RecommendationsReply(200, eventID,
                               SortRecommendations(
                                 Recommendations(events[eventID], EventSlots(slotOrder), userOrder)))

\* The handler run as a whole, in one step.
getRecommendations(eventID) ==
    /\ Running
    /\ call = NoCall
    /\ UNCHANGED <<events, timeSlots, userAvailability, nextID, served, call, crashed>>
    /\ IF eventID \notin DOMAIN events
       THEN response' = NotFoundReply(eventID)
       ELSE IF EventSlotIDs(eventID) = {}
       THEN response' = EmptyReply(eventID)
       ELSE IF UniqueUsers(eventID) = {}
       THEN response' = EmptyReply(eventID)
       ELSE \E slotOrder \in IterationOrders(EventSlotIDs(eventID)) :
            \E userOrder \in [EventSlotIDs(eventID) -> IterationOrders(UniqueUsers(eventID))] :
              response' = RecommendationsReply(200, eventID,
                            SortRecommendations(
                              Recommendations(events[eventID], EventSlots(slotOrder), userOrder)))

\* ---------------------------------------------------------- specifications

\* Requests served one at a time.  Each handler draws its body where the
\* code binds it.
Next ==
    \/ \E req \in CreateEventRequests : createEvent(req)
    \/ \E eventID \in EventIDParams : updateEvent(eventID)
    \/ \E eventID \in EventIDParams : deleteEvent(eventID)
    \/ \E eventID \in EventIDParams : createTimeSlot(eventID)
    \/ \E timeslotID \in TimeSlotIDParams : updateTimeSlot(timeslotID)
    \/ \E timeslotID \in TimeSlotIDParams : deleteTimeSlot(timeslotID)
    \/ \E eventID \in EventIDParams, userID \in UserIDs :
         createUserAvailability(eventID, userID)
    \/ \E path \in AvailabilityPathParams :
         updateUserAvailability(path[1], path[2], path[3])
    \/ \E path \in AvailabilityPathParams :
         deleteUserAvailability(path[1], path[2], path[3])
    \/ \E eventID \in RecommendationParams : getRecommendations(eventID)

Spec == Init /\ [][Next]_vars

\* ------------------------------------------------------- concurrent calls

(***************************************************************************)
(* net/http runs every request in a goroutine of its own and the three     *)
(* maps are package variables that no lock guards.  One getRecommendations *)
(* call is followed through its reads: the lookup of the event, the loop   *)
(* over timeSlots, the loop over userAvailability, and the scoring loops,  *)
(* which read userAvailability again.  The other handlers run between      *)
(* these reads.  A map read that overlaps a map write is a data race; the  *)
(* runtime either lets the read see the map before or after the write, or  *)
(* stops the process ("fatal error: concurrent map iteration and map       *)
(* write").                                                                *)
(*                                                                         *)
(* call.firstRead records, for the claims only, the event's slots and      *)
(* respondents as they were at the call's first read.                      *)
(***************************************************************************)

\* event, exists := events[eventID]
recLookupEvent(eventID) ==
    /\ Running
    /\ call = NoCall
    /\ UNCHANGED <<events, timeSlots, userAvailability, nextID, served, crashed>>
    /\ IF eventID \notin DOMAIN events
       THEN /\ response' = NotFoundReply(eventID)
            /\ call' = NoCall
       ELSE /\ call' = [pc |-> "slots",
                        eventID |-> eventID,
                        event |-> events[eventID],
                        eventSlots |-> <<>>,
                        uniqueUsers |-> {},
                        firstRead |->
                          [eventSlots |-> { timeSlots[id] : id \in EventSlotIDs(eventID) },
                           uniqueUsers |-> UniqueUsers(eventID)]]
            /\ UNCHANGED response

\* The loop over timeSlots and the reply when it finds no slot.
recCollectSlots ==
    /\ Running
    /\ call.pc = "slots"
    /\ UNCHANGED <<events, timeSlots, userAvailability, nextID, served, crashed>>
    /\ \E slotOrder \in IterationOrders(EventSlotIDs(call.eventID)) :
         IF slotOrder = <<>>
         THEN /\ response' = EmptyReply(call.eventID)
              /\ call' = NoCall
         ELSE /\ call' = [call EXCEPT !.pc = "users", !.eventSlots = EventSlots(slotOrder)]
              /\ UNCHANGED response

\* The loop that fills uniqueUsers and the reply when it stays empty.
recCollectUsers ==
    /\ Running
    /\ call.pc = "users"
    /\ UNCHANGED <<events, timeSlots, userAvailability, nextID, served, crashed>>
    /\ IF UniqueUsers(call.eventID) = {}
       THEN /\ response' = EmptyReply(call.eventID)
            /\ call' = NoCall
       ELSE /\ call' = [call EXCEPT !.pc = "score", !.uniqueUsers = UniqueUsers(call.eventID)]
            /\ UNCHANGED response

\* The scoring loops, the sort and the reply.
recScoreAndReply ==
    /\ Running
    /\ call.pc = "score"
    /\ UNCHANGED <<events, timeSlots, userAvailability, nextID, served, crashed>>
    /\ \E userOrder \in [{ call.eventSlots[i].ID : i \in DOMAIN call.eventSlots }
                           -> IterationOrders(call.uniqueUsers)] :
         response' = RecommendationsReply(200, call.eventID,
                       SortRecommendations(
                         Recommendations(call.event, call.eventSlots, userOrder)))
    /\ call' = NoCall

\* A loop of the call in flight overlaps a write of another handler and
\* the runtime detects it: the process exits.
fatalConcurrentMapAccess ==
    /\ Running
    /\ call.pc \in {"slots", "users", "score"}
    /\ served < MaxRequests
    /\ crashed' = TRUE
    /\ UNCHANGED <<events, timeSlots, userAvailability, nextID, served, response, call>>

\* The handlers that write, running beside one getRecommendations call.
NextConc ==
    \/ \E req \in CreateEventRequests : createEvent(req)
    \/ \E eventID \in EventIDParams : updateEvent(eventID)
    \/ \E eventID \in EventIDParams : deleteEvent(eventID)
    \/ \E eventID \in EventIDParams : createTimeSlot(eventID)
    \/ \E timeslotID \in TimeSlotIDParams : updateTimeSlot(timeslotID)
    \/ \E timeslotID \in TimeSlotIDParams : deleteTimeSlot(timeslotID)
    \/ \E eventID \in EventIDParams, userID \in UserIDs :
         createUserAvailability(eventID, userID)
    \/ \E path \in AvailabilityPathParams :
         updateUserAvailability(path[1], path[2], path[3])
    \/ \E path \in AvailabilityPathParams :
         deleteUserAvailability(path[1], path[2], path[3])
    \/ \E eventID \in RecommendationParams : recLookupEvent(eventID)
    \/ recCollectSlots
    \/ recCollectUsers
    \/ recScoreAndReply
    \/ fatalConcurrentMapAccess

SpecConc == Init /\ [][NextConc]_vars

\* ------------------------------------------------------------------ claims

\* The reply in hand is one of /recommendations.  Under Spec every request
\* that changes a store replaces the reply, so the stores are those the
\* reply was computed from.
Recommended == response.endpoint = "recommendations"

\* The reply in hand is a successful one of /recommendations.
RecommendedOK == Recommended /\ response.status = 200

recs == response.recommendations

\* The event's slots that last at least the required duration, by the
\* claim's arithmetic: end - start, in minutes, >= requiredDuration.
EligibleSlots(eventID) ==
    { timeSlots[id] : id \in
        { x \in DOMAIN timeSlots :
            /\ timeSlots[x].EventID = eventID
            /\ timeSlots[x].EndTime - timeSlots[x].StartTime
                 >= events[eventID].RequiredDuration * TicksPerMinute } }

\* The users with at least one availability record for the event.
KnownUsers(eventID) ==
    { u \in UserIDs : \E id \in DOMAIN userAvailability :
        userAvailability[id].EventID = eventID /\ userAvailability[id].UserID = u }

\* The elements of a sequence.
Range(q) == { q[i] : i \in DOMAIN q }

\* C1: among recommendations of equal percentage, the slot that starts
\* earlier comes first.
C1_TieBreakByStartTime ==
    RecommendedOK =>
      \A i, j \in DOMAIN recs :
        (i < j /\ PercentageEqual(recs[i].AvailabilityPercentage,
                                  recs[j].AvailabilityPercentage))
          => ~(recs[j].TimeSlot.StartTime < recs[i].TimeSlot.StartTime)

\* C2: a call of getRecommendations that follows another one for the same
\* event, with no write to a store in between, returns the same reply.
C2_RepeatedCallSameOutput ==
    [][(/\ response.endpoint = "recommendations"
        /\ response'.endpoint = "recommendations"
        /\ response'.eventID = response.eventID
        /\ stores' = stores)
         => response' = response]_vars

\* C3: the store holds at most one availability record per (user, slot).
C3_OneRecordPerUserSlot ==
    \A a, b \in DOMAIN userAvailability :
      (/\ userAvailability[a].UserID = userAvailability[b].UserID
       /\ userAvailability[a].TimeSlotID = userAvailability[b].TimeSlotID)
        => a = b

\* C4: a getRecommendations call that runs beside writing handlers uses
\* only records as they were at its first read: the slots and the users it
\* has collected are those of the first read, and the event is still
\* stored when the call reads its slots.
C4_SnapshotConsistency ==
    /\ call.pc = "slots" => call.eventID \in DOMAIN events
    /\ call.pc \in {"users", "score"} =>
         { call.eventSlots[i] : i \in DOMAIN call.eventSlots } = call.firstRead.eventSlots
    /\ call.pc = "score" => call.uniqueUsers = call.firstRead.uniqueUsers

\* C5: for an event with a respondent, the slots of the output are exactly
\* the event's slots that last at least the required duration, each once.
C5_Eligibility ==
    (RecommendedOK /\ KnownUsers(response.eventID) # {}) =>
      /\ { recs[i].TimeSlot : i \in DOMAIN recs } = EligibleSlots(response.eventID)
      /\ \A i, j \in DOMAIN recs : recs[i].TimeSlot.ID = recs[j].TimeSlot.ID => i = j

\* C5 happens: a slot is recommended while another slot of the event, of
\* positive length but a fraction of a minute short, is left out.
C5_Witness ==
    /\ RecommendedOK
    /\ recs # <<>>
    /\ \E id \in DOMAIN timeSlots :
         /\ timeSlots[id].EventID = response.eventID
         /\ timeSlots[id].EndTime > timeSlots[id].StartTime
         /\ timeSlots[id] \notin { recs[i].TimeSlot : i \in DOMAIN recs }

\* C6: availableUsers is exactly the known users with an "available" record
\* for the event and the slot, unavailableUsers the other known users; no
\* user is listed twice or in both.
C6_AvailabilityPartition ==
    RecommendedOK =>
      \A i \in DOMAIN recs :
        LET r == recs[i]
            known == KnownUsers(response.eventID)
            avail == { u \in known : \E id \in DOMAIN userAvailability :
                         /\ userAvailability[id].EventID = response.eventID
                         /\ userAvailability[id].UserID = u
                         /\ userAvailability[id].TimeSlotID = r.TimeSlot.ID
                         /\ userAvailability[id].Status = "available" }
        IN  /\ Range(r.AvailableUsers) = avail
            /\ Range(r.UnavailableUsers) = known \ avail
            /\ Len(r.AvailableUsers) = Cardinality(avail)
            /\ Len(r.UnavailableUsers) = Cardinality(known \ avail)

\* C6 happens: a recommendation lists one user as available and another,
\* who answered "unavailable" for the slot, as unavailable.
C6_Witness ==
    /\ RecommendedOK
    /\ \E i \in DOMAIN recs :
         /\ recs[i].AvailableUsers # <<>>
         /\ \E id \in DOMAIN userAvailability :
              /\ userAvailability[id].EventID = response.eventID
              /\ userAvailability[id].TimeSlotID = recs[i].TimeSlot.ID
              /\ userAvailability[id].Status = "unavailable"
              /\ userAvailability[id].UserID \in Range(recs[i].UnavailableUsers)

C8_Descending ==
    (RecommendedOK /\ KnownUsers(response.eventID) # {}) =>
      /\ Len(recs) = Cardinality(EligibleSlots(response.eventID))
      /\ \A s \in EligibleSlots(response.eventID) :
           \E i \in DOMAIN recs : recs[i].TimeSlot = s
      /\ \A i, j \in DOMAIN recs :
           i < j => ~PercentageLess(recs[i].AvailabilityPercentage,
                                    recs[j].AvailabilityPercentage)

\* C8 happens: an output of two or more recommendations of different
\* percentages.
C8_Witness ==
    /\ RecommendedOK
    /\ Len(recs) >= 2
    /\ PercentageLess(recs[Len(recs)].AvailabilityPercentage,
                      recs[1].AvailabilityPercentage)

\* C9: for an existing event without a slot or without an availability
\* record, the reply is a success with no recommendation.
C9_EmptyResult ==
    (/\ Recommended
     /\ response.eventID \in DOMAIN events
     /\ \/ \A id \in DOMAIN timeSlots : timeSlots[id].EventID # response.eventID
        \/ \A id \in DOMAIN userAvailability :
             userAvailability[id].EventID # response.eventID)
      => (response.status = 200 /\ recs = <<>>)

\* C9 happens: a call for an existing event that has a slot and no
\* availability record.
C9_Witness ==
    /\ Recommended
    /\ response.eventID \in DOMAIN events
    /\ \E id \in DOMAIN timeSlots : timeSlots[id].EventID = response.eventID
    /\ \A id \in DOMAIN userAvailability : userAvailability[id].EventID # response.eventID

\* C10: the reply is 404 exactly when the event is not in the event store,
\* and a success otherwise.
C10_NotFound ==
    Recommended =>
      /\ response.status = 404 <=> response.eventID \notin DOMAIN events
      /\ response.status # 404 => response.status = 200

\* C10 happens: 404 for a deleted event whose slot and availability record
\* are still stored.
C10_Witness ==
    /\ Recommended
    /\ response.status = 404
    /\ \E id \in DOMAIN timeSlots : timeSlots[id].EventID = response.eventID
    /\ \E id \in DOMAIN userAvailability : userAvailability[id].EventID = response.eventID

\* C11: a step that ends in a reply of /recommendations, whatever the
\* outcome, leaves events, timeSlots and userAvailability as they were.
C11_NoSideEffects ==
    [][response'.endpoint = "recommendations" => stores' = stores]_vars

\* C11 happens: a call has answered with recommendations, one of them
\* for a slot nobody is available for, while the event has a further slot
\* that is too short to be recommended.
C11_Witness ==
    /\ RecommendedOK
    /\ \E i \in DOMAIN recs : recs[i].AvailableUsers = <<>>
    /\ \E id \in DOMAIN timeSlots :
         /\ timeSlots[id].EventID = response.eventID
         /\ \A i \in DOMAIN recs : recs[i].TimeSlot.ID # id

\* C12: no stored slot ends before it starts, and no recommended slot has
\* equal start and end.
C12_NoZeroLengthSlot ==
    /\ \A id \in DOMAIN timeSlots : timeSlots[id].EndTime >= timeSlots[id].StartTime
    /\ RecommendedOK =>
         \A i \in DOMAIN recs : recs[i].TimeSlot.EndTime > recs[i].TimeSlot.StartTime

\* C13: a createEvent request answered 201 adds exactly one event, under
\* an identifier that is not empty and that no other stored event has, with
\* status "active" and the request's title, description, organizer and
\* required duration; every event stored before, every slot and every
\* availability record stay as they were.
C13_EventCreation ==
    [][\A req \in CreateEventRequests :
         (createEvent(req) /\ response'.status = 201) =>
           \E id \in DOMAIN events' :
             /\ id # 0
             /\ id \notin DOMAIN events
             /\ DOMAIN events' = DOMAIN events \cup {id}
             /\ \A e \in DOMAIN events : events'[e] = events[e] /\ events'[e].ID # id
             /\ events'[id].ID = id
             /\ events'[id].Status = "active"
             /\ events'[id].Title = req.Title
             /\ events'[id].Description = req.Description
             /\ events'[id].OrganizerID = req.OrganizerID
             /\ events'[id].RequiredDuration = req.RequiredDuration
             /\ timeSlots' = timeSlots
             /\ userAvailability' = userAvailability]_vars

\* C13 happens: createEvent has just answered 201 and stored the event
\* under the newest identifier, with another event and a slot in the store.
C13_Witness ==
    /\ response.endpoint = "crud"
    /\ response.status = 201
    /\ nextID - 1 \in DOMAIN events
    /\ Cardinality(DOMAIN events) >= 2
    /\ timeSlots # <<>>

\* C14: every availability record names a stored event and a stored slot,
\* and that slot belongs to the record's event.
C14_ReferentialIntegrity ==
    \A id \in DOMAIN userAvailability :
      /\ userAvailability[id].EventID \in DOMAIN events
      /\ userAvailability[id].TimeSlotID \in DOMAIN timeSlots
      /\ \A ts \in DOMAIN timeSlots :
           ts = userAvailability[id].TimeSlotID =>
             timeSlots[ts].EventID = userAvailability[id].EventID

====
